---------------------------- MODULE Spec2Model ----------------------------
(***************************************************************************)
(* Float_4E3M: the 8-bit format (1 sign, 4 exponent, 3 mantissa bits) of   *)
(* src/addition/float_4E3M.py, its lookup tables, the quantizer            *)
(* from_value, the arithmetic of src/addition/operations.py and the table  *)
(* generators built on them.                                               *)
(*                                                                         *)
(* Numbers.  The program computes in IEEE-754 binary64.  Every number it   *)
(* meets here is a ratio of small integers times a power of two, so the    *)
(* model carries reals exactly, as records                                 *)
(*    [cls, sign, num, exp, den]   standing for  (-1)^sign*num*2^exp/den,  *)
(* with cls one of "nan", "inf", "fin" and both signed zeros kept apart.   *)
(* Sums, differences and products of table values are exact in binary64    *)
(* (at most 8 significant bits over a span of 36 binary places).  A        *)
(* quotient is rounded by binary64 to 53 bits; the quotient of two table   *)
(* values is never within 2^-53 (relative) of a midpoint of two table      *)
(* values without being that midpoint, so the nearest-value search sees    *)
(* the same ordering of differences for the rounded as for the exact       *)
(* quotient.  Integers of the model stay below 2^31: wide magnitudes are   *)
(* carried in two limbs.                                                   *)
(***************************************************************************)
EXTENDS Integers, Sequences, FiniteSets, TLC

(***************************************************************************)
(* Program constants.                                                      *)
(***************************************************************************)
NumPatterns == 256      \* np.arange(256), range(256)
MaxSign     == 1        \* 0 <= sign <= 1
MaxExponent == 15       \* 0 <= exponent <= 15
MaxMantissa == 7        \* 0 <= mantissa <= 7
MaxBits     == 255      \* 0 <= bits <= 255

Patterns == 0 .. (NumPatterns - 1)

(***************************************************************************)
(* Exact reals.                                                            *)
(***************************************************************************)
NaN == [cls |-> "nan", sign |-> 0, num |-> 0, exp |-> 0, den |-> 1]

Inf(s) == [cls |-> "inf", sign |-> s, num |-> 0, exp |-> 0, den |-> 1]

Zero(s) == [cls |-> "fin", sign |-> s, num |-> 0, exp |-> 0, den |-> 1]

RECURSIVE GCD(_, _)
GCD(a, b) == IF b = 0 THEN a ELSE GCD(b, a % b)

RECURSIVE StripTwos(_, _)
\* <<n', e'>> with n * 2^e = n' * 2^e' and n' odd (n > 0).
StripTwos(n, e) ==
    IF n % 2 = 0 THEN StripTwos(n \div 2, e + 1) ELSE <<n, e>>

\* The finite real (-1)^s * n * 2^e / d in its normal form: num and den odd
\* and coprime, so that two finite reals are equal as numbers exactly when
\* they are equal as records (the two zeros apart).
Fin(s, n, e, d) ==
    IF n = 0 THEN Zero(s)
    ELSE LET sn == StripTwos(n, e)
             sd == StripTwos(d, 0)
             g  == GCD(sn[1], sd[1])
         IN  [cls |-> "fin", sign |-> s, num |-> sn[1] \div g,
              exp |-> sn[2] - sd[2], den |-> sd[1] \div g]

\* A negation that leaves the sign as it is.
RNegKeepsSign(x) == x

RNeg(x) == [x EXCEPT !.sign = 1 - x.sign]

IsZero(x) == x.cls = "fin" /\ x.num = 0

Min2(a, b) == IF a <= b THEN a ELSE b

Abs(n) == IF n < 0 THEN -n ELSE n

\* x + y for finite x, y (binary64 addition, exact on the program's values;
\* an exact cancellation gives +0 under round-to-nearest).
FiniteAdd(x, y) ==
    LET e0 == Min2(x.exp, y.exp)
        a  == (IF x.sign = 1 THEN -1 ELSE 1) * x.num * y.den * 2^(x.exp - e0)
        b  == (IF y.sign = 1 THEN -1 ELSE 1) * y.num * x.den * 2^(y.exp - e0)
        s  == a + b
    IN  IF s = 0 THEN Zero(IF IsZero(x) /\ IsZero(y) /\ x.sign = 1 /\ y.sign = 1
                           THEN 1 ELSE 0)
        ELSE Fin(IF s < 0 THEN 1 ELSE 0, IF s < 0 THEN -s ELSE s, e0,
                 x.den * y.den)

\* x + y: NaN from a NaN and from infinities of opposite signs, an infinity
\* from an infinity, else the sum.
RAdd(x, y) ==
    IF x.cls = "nan" \/ y.cls = "nan" THEN NaN
    ELSE IF x.cls = "inf" /\ y.cls = "inf"
    THEN IF x.sign = y.sign THEN x ELSE NaN
    ELSE IF x.cls = "inf" THEN x
    ELSE IF y.cls = "inf" THEN y
    ELSE FiniteAdd(x, y)

RSub(x, y) == RAdd(x, RNeg(y))

\* x * y: NaN from a NaN and from an infinity times zero.
RMul(x, y) ==
    IF x.cls = "nan" \/ y.cls = "nan" THEN NaN
    ELSE IF x.cls = "inf" \/ y.cls = "inf"
    THEN IF IsZero(x) \/ IsZero(y) THEN NaN ELSE Inf((x.sign + y.sign) % 2)
    ELSE Fin((x.sign + y.sign) % 2, x.num * y.num, x.exp + y.exp,
             x.den * y.den)

\* x / y for y not zero (a zero divisor is turned away before the division):
\* NaN from a NaN and from two infinities.
RDiv(x, y) ==
    IF x.cls = "nan" \/ y.cls = "nan" THEN NaN
    ELSE IF x.cls = "inf"
    THEN IF y.cls = "inf" THEN NaN ELSE Inf((x.sign + y.sign) % 2)
    ELSE IF y.cls = "inf" THEN Zero((x.sign + y.sign) % 2)
    ELSE Fin((x.sign + y.sign) % 2, x.num * y.den, x.exp - y.exp,
             x.den * y.num)

(***************************************************************************)
(* Wide magnitudes: <<hi, lo>> stands for hi * LimbBase + lo.              *)
(***************************************************************************)
LimbBits == MaxExponent + 3

LimbBase == 2^LimbBits

\* n * 2^k in limbs (n < 2^23, n * 2^k < 2^49).
ShiftLeft(n, k) ==
    IF k >= LimbBits THEN <<n * 2^(k - LimbBits), 0>>
    ELSE <<n \div 2^(LimbBits - k), (n % 2^(LimbBits - k)) * 2^k>>

LimbLess(a, b) == a[1] < b[1] \/ (a[1] = b[1] /\ a[2] < b[2])

LimbAdd(a, b) ==
    <<a[1] + b[1] + ((a[2] + b[2]) \div LimbBase), (a[2] + b[2]) % LimbBase>>

\* a - b for a >= b.
LimbSub(a, b) ==
    IF a[2] >= b[2] THEN <<a[1] - b[1], a[2] - b[2]>>
    ELSE <<a[1] - b[1] - 1, a[2] + LimbBase - b[2]>>


(***************************************************************************)
(* State.  The class variables of Float_4E3M and the call being observed.  *)
(***************************************************************************)
VARIABLES
    initialized,     \* Float_4E3M._initialized
    all_values,      \* Float_4E3M._all_values: None (<<>>) or pattern -> real
    all_components,  \* Float_4E3M._all_components: None or pattern -> <<s,e,m>>
    call,            \* the last call made and what it gave
    gen,             \* the run of the table generator: its locals
    builds,          \* how often the body of _initialize_lookup_tables ran
    objs,            \* the instances the caller holds, oldest first
    threads          \* the concurrent callers: where each is, its locals

classVars == <<initialized, all_values, all_components>>

None == << >>

\* No instance: what a call that raised leaves in place of its result.
NoFloat == [sign |-> -1, exponent |-> -1, mantissa |-> -1]

(***************************************************************************)
(* Float_4E3M.                                                             *)
(***************************************************************************)
\* A validation that lets every mantissa pass.
InitErrorMantissaUnchecked(sign, exponent, mantissa) ==
    IF ~(0 <= sign /\ sign <= MaxSign) THEN "ValueError"
    ELSE IF ~(0 <= exponent /\ exponent <= MaxExponent) THEN "ValueError"
    ELSE "none"

\* __init__'s validation: the error it raises, or "none".
InitError(sign, exponent, mantissa) ==
    IF ~(0 <= sign /\ sign <= MaxSign) THEN "ValueError"
    ELSE IF ~(0 <= exponent /\ exponent <= MaxExponent) THEN "ValueError"
    ELSE IF ~(0 <= mantissa /\ mantissa <= MaxMantissa) THEN "ValueError"
    ELSE "none"

\* cls(sign, exponent, mantissa): the instance, or the error raised.
Float_4E3M(sign, exponent, mantissa) ==
    IF InitError(sign, exponent, mantissa) # "none"
    THEN [err |-> InitError(sign, exponent, mantissa), obj |-> NoFloat]
    ELSE [err |-> "none",
          obj |-> [sign |-> sign, exponent |-> exponent, mantissa |-> mantissa]]

\* all_bits >> 7 & 1, all_bits >> 3 & 0xF, all_bits & 0x7
SignOf(bits) == (bits \div 2^7) % 2

\* The exponent taken with the mantissa's mask, 0x7.
ExponentOfThreeBits(bits) == (bits \div 2^3) % 2^3

ExponentOf(bits) == (bits \div 2^3) % 2^4

\* The mantissa taken with a mask of two bits, 0x3.
MantissaOfTwoBits(bits) == bits % 2^2

MantissaOf(bits) == bits % 2^3

\* The table's entry with the sign factor always 1.0.
TableValueSignIgnored(bits) ==
    LET exponent_factor == Fin(0, 1, -ExponentOf(bits), 1)
        mantissa_factor == RDiv(Fin(0, 8 + MantissaOf(bits), 0, 1),
                                Fin(0, 8, 0, 1))
    IN  RMul(RMul(Fin(0, 1, 0, 1), exponent_factor), mantissa_factor)

\* The table's entry without the leading 8 of the mantissa factor.
TableValueNoLeadingOne(bits) ==
    LET sign_factor     == IF SignOf(bits) = 0 THEN Fin(0, 1, 0, 1)
                           ELSE Fin(1, 1, 0, 1)
        exponent_factor == Fin(0, 1, -ExponentOf(bits), 1)
        mantissa_factor == RDiv(Fin(0, MantissaOf(bits), 0, 1), Fin(0, 8, 0, 1))
    IN  RMul(RMul(sign_factor, exponent_factor), mantissa_factor)

\* sign_factors * exponent_factors * mantissa_factors, entry by entry.
TableValue(bits) ==
    LET sign_factor     == IF SignOf(bits) = 0 THEN Fin(0, 1, 0, 1)
                           ELSE Fin(1, 1, 0, 1)
        exponent_factor == Fin(0, 1, -ExponentOf(bits), 1)
        mantissa_factor == RDiv(Fin(0, 8 + MantissaOf(bits), 0, 1),
                                Fin(0, 8, 0, 1))
    IN  RMul(RMul(sign_factor, exponent_factor), mantissa_factor)

\* The arrays _initialize_lookup_tables assigns.
BuiltValues == [bits \in Patterns |-> TableValue(bits)]

BuiltComponents ==
    [bits \in Patterns |-> <<SignOf(bits), ExponentOf(bits), MantissaOf(bits)>>]

\* The exponent taken as a positive power of two.
valuePositiveExponent(f) ==
    Fin(f.sign % 2, 8 + f.mantissa, f.exponent - 3, 1)

\* The sign factor lost: 1 ** sign.
valueWithoutSign(f) == Fin(0, 8 + f.mantissa, -(f.exponent + 3), 1)

\* A decoding that takes the largest magnitude for an infinity.
valueLargestIsInfinite(f) ==
    IF f.exponent = 0 /\ f.mantissa = MaxMantissa THEN Inf(f.sign % 2)
    ELSE Fin(f.sign % 2, 8 + f.mantissa, -(f.exponent + 3), 1)

\* The property value of an instance.
value(f) ==
    LET sign_factor     == IF f.sign % 2 = 0 THEN Fin(0, 1, 0, 1)
                           ELSE Fin(1, 1, 0, 1)
        exponent_factor == Fin(0, 1, -f.exponent, 1)
        mantissa_factor == RDiv(Fin(0, 8 + f.mantissa, 0, 1), Fin(0, 8, 0, 1))
    IN  RMul(RMul(sign_factor, exponent_factor), mantissa_factor)

from_bits(bits) ==
    IF ~(0 <= bits /\ bits <= MaxBits)
    THEN [err |-> "ValueError", obj |-> NoFloat]
    ELSE Float_4E3M(SignOf(bits), ExponentOf(bits), MantissaOf(bits))

\* The exponent shifted by two places, not three.
to_bitsExponentShiftedTwo(f) == f.sign * 2^7 + f.exponent * 2^2 + f.mantissa

\* (sign << 7) | (exponent << 3) | mantissa: the fields occupy disjoint
\* bits, so the bitwise or is the sum.
to_bits(f) == f.sign * 2^7 + f.exponent * 2^3 + f.mantissa

RECURSIVE Binary(_, _)
\* The `width` low binary digits of n, most significant first.
Binary(n, width) ==
    IF width = 0 THEN << >>
    ELSE Append(Binary(n \div 2, width - 1), IF n % 2 = 1 THEN "1" ELSE "0")

\* f"{self.to_bits():08b}"
to_bitstring(f) == Binary(to_bits(f), 8)

(***************************************************************************)
(* from_value: the quantizer.                                              *)
(***************************************************************************)
\* A test that rejects the infinities with NaN.
IsNotFinite(v) == v.cls # "fin"

\* np.isnan(value)
IsNan(v) == v.cls = "nan"

\* np.isinf(value)
IsInf(v) == v.cls = "inf"

\* The exponent of the unit the differences are counted in: the finest of
\* the table's (2^-(MaxExponent+3)) and the input's.
UnitExp(v) == Min2(v.exp, -(MaxExponent + 3))

\* |t - v| in limbs, counted in units of 2^UnitExp(v) / v.den.
AbsDiff(t, v) ==
    LET T == ShiftLeft(t.num * v.den, t.exp - UnitExp(v))
        V == ShiftLeft(v.num, v.exp - UnitExp(v))
    IN  IF t.sign # v.sign THEN LimbAdd(T, V)
        ELSE IF LimbLess(T, V) THEN LimbSub(V, T)
        ELSE LimbSub(T, V)

\* np.abs(cls._all_values - value)
Differences(values, v) == [i \in Patterns |-> AbsDiff(values[i], v)]

RECURSIVE ArgMinLastIn(_, _, _)
\* The last, not the first, index holding the least difference.
ArgMinLastIn(d, lo, hi) ==
    IF lo = hi THEN <<lo, d[lo]>>
    ELSE LET mid   == (lo + hi) \div 2
             left  == ArgMinLastIn(d, lo, mid)
             right == ArgMinLastIn(d, mid + 1, hi)
         IN  IF LimbLess(left[2], right[2]) THEN left ELSE right

RECURSIVE ArgMinIn(_, _, _)
\* <<i, d[i]>> for the first index i of lo..hi holding the least of
\* d[lo..hi]: that of the lower half, unless the upper half holds a strictly
\* smaller difference.
ArgMinIn(d, lo, hi) ==
    IF lo = hi THEN <<lo, d[lo]>>
    ELSE LET mid   == (lo + hi) \div 2
             left  == ArgMinIn(d, lo, mid)
             right == ArgMinIn(d, mid + 1, hi)
         IN  IF LimbLess(right[2], left[2]) THEN right ELSE left

\* A scan that stops one entry short of the table's end.
ArgMinSkipsLast(d) == ArgMinIn(d, 0, NumPatterns - 2)[1]

\* np.argmin: the first index holding the least difference.
ArgMin(d) == ArgMinIn(d, 0, NumPatterns - 1)[1]

\* The infinities sent to the smallest magnitude, not the largest.
InfiniteCaseSmallest(v) ==
    IF v.sign = 0 THEN Float_4E3M(0, 15, 0) ELSE Float_4E3M(1, 15, 0)

\* The infinities' encodings with the signs exchanged.
InfiniteCaseSwapped(v) ==
    IF v.sign = 0 THEN Float_4E3M(1, 0, 7) ELSE Float_4E3M(0, 0, 7)

\* The saturating encodings of the infinities.
InfiniteCase(v) ==
    IF v.sign = 0 THEN Float_4E3M(0, 0, 7) ELSE Float_4E3M(1, 0, 7)

\* Zero sent to the smallest magnitude of the negative sign.
ZeroCaseNegativeSign == Float_4E3M(1, 15, 0)

\* Zero sent to exponent 0, the largest binade, instead of the smallest.
ZeroCaseExponentZero == Float_4E3M(0, 0, 0)

\* The encoding that stands for zero.
ZeroCase == Float_4E3M(0, 15, 0)

\* The nearest-value search over the tables; a table that is still None
\* can neither be subtracted from nor indexed (TypeError).
NearestCase(values, components, v) ==
    IF values = None \/ components = None
    THEN [err |-> "TypeError", obj |-> NoFloat]
    ELSE LET best_index == ArgMin(Differences(values, v))
             c          == components[best_index]
         IN  Float_4E3M(c[1], c[2], c[3])

\* from_value past the table initialisation: the instance or the error, and
\* whether the nearest-value search ran.
from_value(values, components, v) ==
    IF IsNan(v)
    THEN [err |-> "ValueError", obj |-> NoFloat, searched |-> FALSE]
    ELSE IF IsInf(v)
    THEN [err |-> InfiniteCase(v).err, obj |-> InfiniteCase(v).obj,
          searched |-> FALSE]
    ELSE IF IsZero(v)
    THEN [err |-> ZeroCase.err, obj |-> ZeroCase.obj, searched |-> FALSE]
    ELSE LET r == NearestCase(values, components, v)
         IN  [err |-> r.err, obj |-> r.obj, searched |-> TRUE]

(***************************************************************************)
(* Inputs of the quantizer: the special values and dyadic reals, multiples *)
(* of 2^InputExp.  The dyadic inputs are taken at and around every table   *)
(* value and every midpoint of two neighbouring table values, around zero  *)
(* and beyond the largest magnitude.                                       *)
(***************************************************************************)
MaxOff == 1

InputExp == -(MaxExponent + 4)

Dyadic(n) == Fin(IF n < 0 THEN 1 ELSE 0, IF n < 0 THEN -n ELSE n, InputExp, 1)

\* The value of a bit pattern counted in units of 2^InputExp.
Table19(bits) ==
    (IF SignOf(bits) = 1 THEN -1 ELSE 1)
        * (8 + MantissaOf(bits)) * 2^(MaxExponent + 1 - ExponentOf(bits))

\* The pattern of the next larger magnitude of the same sign (the largest
\* is its own).
NextUp(bits) ==
    IF MantissaOf(bits) < MaxMantissa THEN bits + 1
    ELSE IF ExponentOf(bits) > 0 THEN bits - 15
    ELSE bits

Midpoint19(bits) == (Table19(bits) + Table19(NextUp(bits))) \div 2

Offsets == (-MaxOff) .. MaxOff

InputInts ==
    UNION {{Table19(i) + k, Midpoint19(i) + k, k, 2^21 + k, -(2^21) + k}
              : <<i, k>> \in Patterns \X Offsets}

QuantInputs ==
    {NaN, Inf(0), Inf(1), Zero(0), Zero(1)}
        \cup {Dyadic(n) : n \in InputInts \ {0}}

(***************************************************************************)
(* Calls.  A call runs from the idle state to its result; Return takes the *)
(* result and leaves the class variables as the call left them.            *)
(***************************************************************************)
Idle ==
    [op |-> "idle", x |-> NaN, a |-> -1, b |-> -1, err |-> "none",
     ret |-> NoFloat, searched |-> FALSE]

\* The table read as it is, built or not.
InitializedValuesUnbuilt == all_values

\* _initialize_lookup_tables: the class variables after it.
InitializedValues == IF initialized THEN all_values ELSE BuiltValues

InitializedComponents == IF initialized THEN all_components ELSE BuiltComponents

\* A build on every call, whatever _initialized says.
BuildsAfterUnguarded == builds + 1

\* The runs of the build's body after a call that asks for the tables: one
\* more if they were not built.
BuildsAfter == IF initialized THEN builds ELSE builds + 1

\* if not cls._initialized: cls._initialize_lookup_tables()
EnsureInitialized ==
    /\ initialized' = TRUE
    /\ all_values' = InitializedValues
    /\ all_components' = InitializedComponents
    /\ builds' = BuildsAfter

\* No concurrent caller.
NoThreads == << >>

\* No run of the table generator yet.
NotStarted ==
    [pc |-> "none", first1 |-> 0, first2 |-> 0, list1 |-> << >>,
     list2 |-> << >>, i |-> 0, j |-> 0, addition_results |-> << >>]

Init ==
    /\ initialized = FALSE
    /\ all_values = None
    /\ all_components = None
    /\ call = Idle
    /\ gen = NotStarted
    /\ builds = 0
    /\ objs = << >>
    /\ threads = NoThreads

\* Float_4E3M.from_value(v)
FromValue(v) ==
    /\ call.op = "idle"
    /\ EnsureInitialized
    /\ LET r == from_value(InitializedValues, InitializedComponents, v)
       IN  call' = [Idle EXCEPT !.op = "from_value", !.x = v, !.err = r.err,
                                !.ret = r.obj, !.searched = r.searched]
    /\ UNCHANGED <<gen, objs, threads>>

Return ==
    /\ call.op # "idle"
    /\ call' = Idle
    /\ UNCHANGED <<classVars, builds, gen, objs, threads>>

vars ==
    <<initialized, all_values, all_components, call, gen, builds, objs, threads>>

Next ==
    \/ \E v \in QuantInputs : FromValue(v)
    \/ Return

Spec == Init /\ [][Next]_vars

(***************************************************************************)
(* The quantizer's contract, on the calls of Spec.  Distances are taken    *)
(* here in plain integers, every number counted in units of 2^InputExp.    *)
(***************************************************************************)
\* A dyadic real (den = 1, exp >= InputExp) in units of 2^InputExp.
Units19(x) == (IF x.sign = 1 THEN -1 ELSE 1) * x.num * 2^(x.exp - InputExp)

Distance19(x, y) == Abs(Units19(x) - Units19(y))

QuantizedFinite ==
    call.op = "from_value" /\ call.x.cls = "fin" /\ call.x.num # 0

C2_TieLowestIndex ==
    QuantizedFinite =>
        \A t \in Patterns :
            Distance19(all_values[t], call.x)
                    = Distance19(all_values[to_bits(call.ret)], call.x)
                => to_bits(call.ret) <= t

\* An input midway between two table values was quantized to the lower
\* pattern of the two.
C2_Witness ==
    /\ QuantizedFinite
    /\ \E t \in Patterns :
          /\ t > to_bits(call.ret)
          /\ Distance19(all_values[t], call.x)
                = Distance19(value(call.ret), call.x)

\* C3: from_value(0.0) and from_value(-0.0) both return (0, 15, 0), bit
\* pattern 01111000, and do not run the nearest-value search.
C3_ZeroEncoding ==
    (call.op = "from_value" /\ IsZero(call.x)) =>
        /\ call.err = "none"
        /\ call.ret = [sign |-> 0, exponent |-> 15, mantissa |-> 0]
        /\ to_bitstring(call.ret) = <<"0", "1", "1", "1", "1", "0", "0", "0">>
        /\ ~call.searched

\* The negative zero was quantized.
C3_Witness ==
    /\ call.op = "from_value"
    /\ call.x = Zero(1)
    /\ call.ret = [sign |-> 0, exponent |-> 15, mantissa |-> 0]

\* C4: from_value(+inf) returns (0, 0, 7) and from_value(-inf) returns
\* (1, 0, 7), the value of the largest magnitude of that sign.
C4_InfinitySaturates ==
    (call.op = "from_value" /\ call.x.cls = "inf") =>
        /\ call.err = "none"
        /\ call.ret = [sign |-> call.x.sign, exponent |-> 0, mantissa |-> 7]
        /\ \A t \in Patterns :
              all_values[t].sign = call.x.sign
                  => Abs(Units19(all_values[t])) <= Abs(Units19(value(call.ret)))

\* The negative infinity was quantized.
C4_Witness ==
    /\ call.op = "from_value"
    /\ call.x = Inf(1)
    /\ call.ret = [sign |-> 1, exponent |-> 0, mantissa |-> 7]

\* C5: from_value raises, and gives no instance, exactly for NaN.
C5_NaNOnlyFailure ==
    call.op = "from_value" =>
        /\ call.err # "none" <=> call.x.cls = "nan"
        /\ call.err # "none" => call.ret = NoFloat
        /\ call.err = "none" => call.ret # NoFloat

\* NaN was given and rejected.
C5_Witness ==
    /\ call.op = "from_value"
    /\ call.x = NaN
    /\ call.err = "ValueError"
    /\ call.ret = NoFloat

\* C6: from_value(from_bits(b).value).to_bits() = b for every pattern b.
C6_FixedPoint ==
    call.op = "from_value" =>
        \A b \in Patterns :
            call.x = value(from_bits(b).obj)
                => call.err = "none" /\ to_bits(call.ret) = b

\* The value of the last pattern was quantized, to that pattern.
C6_Witness ==
    /\ call.op = "from_value"
    /\ call.x = value(from_bits(MaxBits).obj)
    /\ to_bits(call.ret) = MaxBits

(***************************************************************************)
(* Float4E3MOperations.  The operands are instances, made from their bit   *)
(* patterns; each operation decodes both, computes in reals and quantizes. *)
(***************************************************************************)
ExpSpan == 1

\* The operand patterns, of both signs: every mantissa of the ExpSpan
\* largest and the ExpSpan smallest binades, and the ends of a middle one.
OperandPatterns ==
    {p \in Patterns :
        \/ ExponentOf(p) < ExpSpan
        \/ ExponentOf(p) > MaxExponent - ExpSpan
        \/ /\ ExponentOf(p) = (MaxExponent + 1) \div 2
           /\ MantissaOf(p) \in {0, MaxMantissa}}

\* x1 = Float_4E3M.from_bits(a); x2 = Float_4E3M.from_bits(b)
MakeOperands(a, b) ==
    /\ call.op = "idle"
    /\ from_bits(a).err = "none"
    /\ from_bits(b).err = "none"
    /\ EnsureInitialized
    /\ call' = [Idle EXCEPT !.op = "operands", !.a = a, !.b = b]
    /\ UNCHANGED <<gen, objs, threads>>

\* The call record of an operation whose real result is x.
Quantized(name, x) ==
    LET r == from_value(InitializedValues, InitializedComponents, x)
    IN  [call EXCEPT !.op = name, !.x = x, !.err = r.err, !.ret = r.obj,
                     !.searched = r.searched]

\* The left operand added to itself.
Float_addSelfTwice(self, other) == RAdd(value(self), value(self))

\* Float_4E3M.__add__: self.value + other.value, quantized.
Float_add(self, other) == RAdd(value(self), value(other))

\* Float4E3MOperations.add(a, b): a + b
Add ==
    /\ call.op = "operands"
    /\ UNCHANGED <<gen, objs, threads>>
    /\ EnsureInitialized
    /\ call' = Quantized("add",
                         Float_add(from_bits(call.a).obj, from_bits(call.b).obj))

\* The operands exchanged.
SubtractValueSwapped(a, b) == RSub(value(b), value(a))

\* result_value = a.value - b.value
SubtractValue(a, b) == RSub(value(a), value(b))

\* Float4E3MOperations.subtract(a, b)
Subtract ==
    /\ call.op = "operands"
    /\ UNCHANGED <<gen, objs, threads>>
    /\ EnsureInitialized
    /\ call' = Quantized("subtract",
                         SubtractValue(from_bits(call.a).obj,
                                       from_bits(call.b).obj))

\* result_value = a.value * b.value
MultiplyValue(a, b) == RMul(value(a), value(b))

\* Float4E3MOperations.multiply(a, b)
Multiply ==
    /\ call.op = "operands"
    /\ UNCHANGED <<gen, objs, threads>>
    /\ EnsureInitialized
    /\ call' = Quantized("multiply",
                         MultiplyValue(from_bits(call.a).obj,
                                       from_bits(call.b).obj))

\* A test of the divisor's bit pattern against the zero encoding's.
DivisorIsZeroEncoding(b) == to_bits(b) = to_bits(ZeroCase.obj)

\* if b.value == 0: raise ZeroDivisionError
DivisorRejected(b) == IsZero(value(b))

\* The operands exchanged.
DivideValueSwapped(a, b) == RDiv(value(b), value(a))

\* result_value = a.value / b.value
DivideValue(a, b) == RDiv(value(a), value(b))

\* Float4E3MOperations.divide(a, b)
Divide ==
    /\ call.op = "operands"
    /\ UNCHANGED <<gen, objs, threads>>
    /\ IF DivisorRejected(from_bits(call.b).obj)
       THEN /\ call' = [call EXCEPT !.op = "divide",
                                    !.err = "ZeroDivisionError"]
            /\ UNCHANGED <<classVars, builds>>
       ELSE /\ EnsureInitialized
            /\ call' = Quantized("divide",
                                 DivideValue(from_bits(call.a).obj,
                                             from_bits(call.b).obj))

NextArith ==
    \/ \E a \in OperandPatterns, b \in OperandPatterns : MakeOperands(a, b)
    \/ Add
    \/ Subtract
    \/ Multiply
    \/ Divide
    \/ Return

SpecArith == Init /\ [][NextArith]_vars

(***************************************************************************)
(* The arithmetic's contract, on the calls of SpecArith.                   *)
(***************************************************************************)
ArithmeticDone == call.op \in {"add", "subtract", "multiply", "divide"}

\* value(a) op value(b) for the operation and operands of the call.
ExactResult ==
    LET x == value(from_bits(call.a).obj)
        y == value(from_bits(call.b).obj)
    IN  CASE call.op = "add"      -> RAdd(x, y)
          [] call.op = "subtract" -> RSub(x, y)
          [] call.op = "multiply" -> RMul(x, y)
          [] call.op = "divide"   -> RDiv(x, y)

\* Pattern r is a nearest table value to the finite non-zero x, and the
\* lowest pattern among the nearest.
NearestLowest(r, x) ==
    LET dr == AbsDiff(all_values[r], x)
    IN  \A t \in Patterns :
            LET dt == AbsDiff(all_values[t], x)
            IN  ~LimbLess(dt, dr) /\ (dt = dr => r <= t)

\* C7: each operation returns the exact real result of the decoded
\* operands, quantized once: the zero encoding for 0, else the nearest table
\* value, the lowest pattern on a tie.
C7_OperationQuantizesExactResult ==
    ArithmeticDone =>
        /\ call.err = "none"
        /\ call.x = ExactResult
        /\ call.x.cls = "fin"
        /\ IF IsZero(call.x)
           THEN call.ret = [sign |-> 0, exponent |-> 15, mantissa |-> 0]
           ELSE /\ value(call.ret) = all_values[to_bits(call.ret)]
                /\ NearestLowest(to_bits(call.ret), call.x)

\* A subtraction of two different operands whose difference lies midway
\* between two table values was quantized.
C7_Witness ==
    /\ call.op = "subtract"
    /\ call.a # call.b
    /\ call.err = "none"
    /\ call.searched
    /\ \E t \in Patterns :
          /\ t # to_bits(call.ret)
          /\ AbsDiff(all_values[t], call.x) = AbsDiff(value(call.ret), call.x)

\* C8: divide(x, y) raises ZeroDivisionError exactly when y decodes to 0,
\* and returns a value for every other pair.
C8_DivideFailsIffZeroValue ==
    call.op = "divide" =>
        /\ call.err = "ZeroDivisionError" <=> Table19(call.b) = 0
        /\ call.err \in {"none", "ZeroDivisionError"}
        /\ call.err = "none" <=> call.ret # NoFloat

\* A division by the zero encoding returned a value.
C8_Witness ==
    /\ call.op = "divide"
    /\ call.b = to_bits(ZeroCase.obj)
    /\ call.err = "none"
    /\ call.ret # NoFloat

\* The divisor of the call has the magnitude of the zero encoding.
DivisorIsZeroSurrogate ==
    Abs(Table19(call.b)) = Abs(Table19(to_bits(ZeroCase.obj)))

\* C9 as claimed: divide raises ZeroDivisionError for every divisor that is
\* the zero encoding (0, 15, 0) or decodes to the same magnitude.
C9_Original ==
    (call.op = "divide" /\ DivisorIsZeroSurrogate)
        => call.err = "ZeroDivisionError"

\* C9: divide tests the decoded value against 0, and the zero encoding
\* decodes to 2^-15: dividing by it (or by its negative) raises nothing and
\* returns the quotient quantized, value(x) * 2^15, which is (s, 0, m) for
\* an x of exponent 15 and mantissa m and saturates to (s, 0, 7) for every
\* other x, s the sign of the quotient.
C9_DivideByZeroSurrogateSucceeds ==
    (call.op = "divide" /\ DivisorIsZeroSurrogate) =>
        /\ call.err = "none"
        /\ call.ret =
              [sign     |-> (SignOf(call.a) + SignOf(call.b)) % 2,
               exponent |-> 0,
               mantissa |-> IF ExponentOf(call.a) = MaxExponent
                            THEN MantissaOf(call.a) ELSE MaxMantissa]

\* A value of exponent 0 was divided by the negative of the zero encoding.
C9_Witness ==
    /\ call.op = "divide"
    /\ DivisorIsZeroSurrogate
    /\ SignOf(call.b) = 1
    /\ ExponentOf(call.a) = 0
    /\ call.err = "none"
    /\ call.ret.mantissa = MaxMantissa

(***************************************************************************)
(* generate_all_float_4e3m and generate_addition_table.  The table is made *)
(* for two slices of the enumeration of all patterns, one inner iteration  *)
(* a step.                                                                 *)
(***************************************************************************)
MaxList == 3

\* Where the slices start: the largest values, a binade's end, the change
\* to the smallest binade, the change of sign, the smallest negatives.
SliceStarts == {0, 7, 119, 127, 248}

\* The list generate_all_float_4e3m returns: from_bits of 0, 1, ..., 255.
generate_all_float_4e3m ==
    [k \in 1 .. NumPatterns |-> from_bits(k - 1).obj]

RECURSIVE int2(_)
\* int(bitstream, 2) on a string of binary digits.
int2(s) ==
    IF Len(s) = 0 THEN 0
    ELSE 2 * int2(SubSeq(s, 1, Len(s) - 1))
            + (IF s[Len(s)] = "1" THEN 1 ELSE 0)

\* The operand bitstrings in the order of the result's.
TableEntrySwapped(x1, x2, result) ==
    <<to_bitstring(x2), to_bitstring(x1), to_bitstring(result)>>

\* (x1.to_bitstring(), x2.to_bitstring(), result.to_bitstring())
TableEntry(x1, x2, result) ==
    <<to_bitstring(x1), to_bitstring(x2), to_bitstring(result)>>

\* all_floats = generate_all_float_4e3m();
\* generate_addition_table(all_floats[first1 : first1 + n1],
\*                         all_floats[first2 : first2 + n2])
\* up to its loops.  With an empty list2 no iteration has a body to run.
StartTable(first1, n1, first2, n2) ==
    /\ gen.pc = "none"
    /\ call.op = "idle"
    /\ first1 + n1 <= NumPatterns
    /\ first2 + n2 <= NumPatterns
    /\ EnsureInitialized
    /\ gen' = [pc    |-> "loop",
               first1 |-> first1,
               first2 |-> first2,
               list1 |-> SubSeq(generate_all_float_4e3m, first1 + 1, first1 + n1),
               list2 |-> SubSeq(generate_all_float_4e3m, first2 + 1, first2 + n2),
               i     |-> IF n2 = 0 THEN n1 ELSE 0,
               j     |-> 0,
               addition_results |-> << >>]
    /\ UNCHANGED <<call, objs, threads>>

\* One iteration of the inner loop: add, append, move on.
TableStep ==
    /\ gen.pc = "loop"
    /\ gen.i < Len(gen.list1)
    /\ EnsureInitialized
    /\ LET x1     == gen.list1[gen.i + 1]
           x2     == gen.list2[gen.j + 1]
           result == from_value(InitializedValues, InitializedComponents,
                                Float_add(x1, x2)).obj
           last   == gen.j + 1 = Len(gen.list2)
       IN  gen' = [gen EXCEPT
                     !.addition_results = Append(@, TableEntry(x1, x2, result)),
                     !.i = IF last THEN @ + 1 ELSE @,
                     !.j = IF last THEN 0 ELSE @ + 1]
    /\ UNCHANGED <<call, objs, threads>>

\* return addition_results
TableReturn ==
    /\ gen.pc = "loop"
    /\ gen.i = Len(gen.list1)
    /\ gen' = [gen EXCEPT !.pc = "done"]
    /\ UNCHANGED <<classVars, builds, call, objs, threads>>

NextTable ==
    \/ \E first1 \in SliceStarts, first2 \in SliceStarts,
          n1 \in 0 .. MaxList, n2 \in 0 .. MaxList :
            StartTable(first1, n1, first2, n2)
    \/ TableStep
    \/ TableReturn

SpecTable == Init /\ [][NextTable]_vars

(***************************************************************************)
(* The addition table's contract, on the runs of SpecTable.                *)
(***************************************************************************)
\* The result bitstring recomputed from an entry's two operand bitstrings.
RecomputedSum(entry) ==
    to_bitstring(
        from_value(all_values, all_components,
                   RAdd(value(from_bits(int2(entry[1])).obj),
                        value(from_bits(int2(entry[2])).obj))).obj)

\* C10: the addition table of two lists of the enumeration holds one entry
\* per pair, row by row (entry len(list2)*i + j for the i-th of list1 and
\* the j-th of list2: with both lists the whole enumeration, 256*256 entries
\* and entry 256*i + j for patterns i and j), each the bitstrings of the two
\* patterns and of their quantized sum as recomputed from those bitstrings.
C10_AdditionTable ==
    gen.pc = "done" =>
        LET n1 == Len(gen.list1)
            n2 == Len(gen.list2)
        IN  /\ Len(gen.addition_results) = n1 * n2
            /\ \A i \in 0 .. n1 - 1 : \A j \in 0 .. n2 - 1 :
                  LET entry == gen.addition_results[n2 * i + j + 1]
                  IN  /\ entry[1] = Binary(gen.first1 + i, 8)
                      /\ entry[2] = Binary(gen.first2 + j, 8)
                      /\ int2(entry[1]) = gen.first1 + i
                      /\ int2(entry[2]) = gen.first2 + j
                      /\ entry[3] = RecomputedSum(entry)

\* A table of MaxList rows and MaxList columns over two different slices
\* was returned.
C10_Witness ==
    /\ gen.pc = "done"
    /\ gen.first1 # gen.first2
    /\ Len(gen.list1) = MaxList
    /\ Len(gen.list2) = MaxList
    /\ Len(gen.addition_results) = MaxList * MaxList

(***************************************************************************)
(* generate_all_float_4e3m as the loop it is, one iteration a step.        *)
(***************************************************************************)
\* The new object put in front of the list.
AppendFloatInFront(all_floats, float_obj) == <<float_obj>> \o all_floats

\* all_floats.append(float_obj)
AppendFloat(all_floats, float_obj) == Append(all_floats, float_obj)

\* all_floats = []
EnumStart ==
    /\ gen.pc = "none"
    /\ call.op = "idle"
    /\ gen' = [pc |-> "enumerate", bit_pattern |-> 0, all_floats |-> << >>]
    /\ UNCHANGED <<classVars, builds, call, objs, threads>>

\* for bit_pattern in range(256): from_bits, append.  from_bits ends in the
\* constructor, which builds the tables when they are not built.
EnumStep ==
    /\ gen.pc = "enumerate"
    /\ gen.bit_pattern < NumPatterns
    /\ from_bits(gen.bit_pattern).err = "none"
    /\ EnsureInitialized
    /\ gen' = [gen EXCEPT
                 !.all_floats = AppendFloat(@, from_bits(gen.bit_pattern).obj),
                 !.bit_pattern = @ + 1]
    /\ UNCHANGED <<call, objs, threads>>

\* return all_floats
EnumReturn ==
    /\ gen.pc = "enumerate"
    /\ gen.bit_pattern = NumPatterns
    /\ gen' = [gen EXCEPT !.pc = "returned"]
    /\ UNCHANGED <<classVars, builds, call, objs, threads>>

NextEnum ==
    \/ EnumStart
    \/ EnumStep
    \/ EnumReturn

SpecEnum == Init /\ [][NextEnum]_vars

\* C11: generate_all_float_4e3m returns 256 values, the k-th of bit pattern
\* k (k = 0..255): every bit pattern once, in ascending order.
C11_AllPatternsAscending ==
    gen.pc = "returned" =>
        /\ Len(gen.all_floats) = 256
        /\ \A k \in 0 .. 255 : to_bits(gen.all_floats[k + 1]) = k
        /\ \A b \in 0 .. 255 :
              Cardinality({k \in 1 .. Len(gen.all_floats) :
                              to_bits(gen.all_floats[k]) = b}) = 1
        /\ \A k \in 1 .. 255 :
              to_bits(gen.all_floats[k]) < to_bits(gen.all_floats[k + 1])
        /\ gen.all_floats = generate_all_float_4e3m

\* The whole list was returned, its last entry the last pattern.
C11_Witness ==
    /\ gen.pc = "returned"
    /\ Len(gen.all_floats) = NumPatterns
    /\ to_bits(gen.all_floats[NumPatterns]) = MaxBits

(***************************************************************************)
(* A caller that constructs and keeps instances, compares them and uses    *)
(* every entry of the class: the constructor, from_bits, from_value, the   *)
(* arithmetic and _initialize_lookup_tables itself.                        *)
(***************************************************************************)
MaxObjs == 2

\* The arguments the constructor is tried with: each field's range and the
\* integers next outside it.
SignInputs == (-1) .. (MaxSign + 1)

ExponentInputs == (-1) .. (MaxExponent + 1)

MantissaInputs == (-1) .. (MaxMantissa + 1)

\* The arguments from_bits is tried with.
BitsInputs == (-1) .. (MaxBits + 1)

\* The patterns of the instances the caller keeps.
KeptPatterns == {0, 4, 8, 255}

\* Float_4E3M(sign, exponent, mantissa): the validation raises before a
\* field is assigned or a table built; the tables are looked after last.
New(sign, exponent, mantissa) ==
    /\ call.op = "idle"
    /\ LET r == Float_4E3M(sign, exponent, mantissa)
       IN  /\ call' = [op |-> "init", args |-> <<sign, exponent, mantissa>>,
                       err |-> r.err, ret |-> r.obj]
           /\ IF r.err = "none" THEN EnsureInitialized
              ELSE UNCHANGED <<classVars, builds>>
    /\ UNCHANGED <<gen, objs, threads>>

\* Float_4E3M.from_bits(bits)
FromBits(bits) ==
    /\ call.op = "idle"
    /\ LET r == from_bits(bits)
       IN  /\ call' = [Idle EXCEPT !.op = "from_bits", !.a = bits,
                                   !.err = r.err, !.ret = r.obj]
           /\ IF r.err = "none" THEN EnsureInitialized
              ELSE UNCHANGED <<classVars, builds>>
    /\ UNCHANGED <<gen, objs, threads>>

\* Float_4E3M._initialize_lookup_tables()
InitializeLookupTables ==
    /\ call.op = "idle"
    /\ EnsureInitialized
    /\ call' = [Idle EXCEPT !.op = "_initialize_lookup_tables"]
    /\ UNCHANGED <<gen, objs, threads>>

\* The caller keeps the instance a call returned.
Keep ==
    /\ call.op # "idle"
    /\ call.ret # NoFloat
    /\ to_bits(call.ret) \in KeptPatterns
    /\ Len(objs) < MaxObjs
    /\ objs' = Append(objs, call.ret)
    /\ call' = Idle
    /\ UNCHANGED <<classVars, builds, gen, threads>>

\* isinstance(other, Float_4E3M): an instance has the three fields.
IsFloat_4E3M(other) == DOMAIN other = {"sign", "exponent", "mantissa"}

\* __eq__
Eq(self, other) ==
    IF ~IsFloat_4E3M(other) THEN FALSE
    ELSE to_bits(self) = to_bits(other)

\* hash() of an int: below the modulus of the interpreter's hash (2^61 - 1)
\* a non-negative int is its own hash.
IntHash(n) == n

\* __hash__
Hash(self) == IntHash(to_bits(self))

\* Something that is no Float_4E3M but carries the same bits.
Foreign(self) == [bits |-> to_bits(self)]

\* objs[i] == other, hash(objs[i]), hash(other)
Equals(i, other) ==
    /\ call.op = "idle"
    /\ call' = [op |-> "eq", self |-> objs[i], other |-> other,
                err |-> "none", ret |-> NoFloat,
                out |-> Eq(objs[i], other),
                hash_self |-> Hash(objs[i]),
                hash_other |-> IF IsFloat_4E3M(other) THEN Hash(other)
                               ELSE -1]
    /\ UNCHANGED <<classVars, builds, gen, objs, threads>>

(***************************************************************************)
(* conversion_utils.bitstream_to_value.  A string is the sequence of its   *)
(* characters.  int(bitstream, 2) is the interpreter's: it skips white     *)
(* space at both ends, takes a sign, takes the prefix 0b or 0B (and one    *)
(* underscore after it), and reads binary digits that single underscores   *)
(* may separate.                                                           *)
(***************************************************************************)
RECURSIVE StripLeft(_)
StripLeft(s) ==
    IF Len(s) > 0 /\ s[1] = " " THEN StripLeft(Tail(s)) ELSE s

RECURSIVE StripRight(_)
StripRight(s) ==
    IF Len(s) > 0 /\ s[Len(s)] = " "
    THEN StripRight(SubSeq(s, 1, Len(s) - 1)) ELSE s

HasSign(s) == Len(s) > 0 /\ s[1] \in {"+", "-"}

Unsigned(s) == IF HasSign(s) THEN Tail(s) ELSE s

\* The digits after the base prefix, if there is one.
Unprefixed(s) ==
    IF Len(s) >= 2 /\ s[1] = "0" /\ s[2] \in {"b", "B"}
    THEN LET t == SubSeq(s, 3, Len(s))
         IN  IF Len(t) > 0 /\ t[1] = "_" THEN Tail(t) ELSE t
    ELSE s

\* At least one digit, digits and underscores only, no underscore at either
\* end and no two in a row.
DigitsValid(d) ==
    /\ Len(d) > 0
    /\ \A k \in 1 .. Len(d) : d[k] \in {"0", "1", "_"}
    /\ d[1] # "_"
    /\ d[Len(d)] # "_"
    /\ \A k \in 1 .. Len(d) - 1 : ~(d[k] = "_" /\ d[k + 1] = "_")

IsDigit(c) == c # "_"

\* int(bitstream, 2): the integer, or the ValueError.
IntBase2(bitstream) ==
    LET stripped == StripRight(StripLeft(bitstream))
        digits   == Unprefixed(Unsigned(stripped))
        number   == int2(SelectSeq(digits, IsDigit))
    IN  IF ~DigitsValid(digits) THEN [err |-> "ValueError", val |-> 0]
        ELSE [err |-> "none",
              val |-> IF HasSign(stripped) /\ stripped[1] = "-"
                      THEN -number ELSE number]

\* No float: what a call that raised gives in place of a number.
NoValue == [cls |-> "none"]

\* bitstream_to_value(bitstream): the value, or the error raised, and
\* whether an instance was constructed on the way.
bitstream_to_value(bitstream) ==
    IF Len(bitstream) # 8
    THEN [err |-> "ValueError", out |-> NoValue, made |-> FALSE]
    ELSE IF IntBase2(bitstream).err # "none"
    THEN [err |-> "ValueError", out |-> NoValue, made |-> FALSE]
    ELSE LET float_4e3m == from_bits(IntBase2(bitstream).val)
         IN  IF float_4e3m.err # "none"
             THEN [err |-> float_4e3m.err, out |-> NoValue, made |-> FALSE]
             ELSE [err |-> "none", out |-> value(float_4e3m.obj),
                   made |-> TRUE]

BitstreamToValue(bitstream) ==
    /\ call.op = "idle"
    /\ LET r == bitstream_to_value(bitstream)
       IN  /\ call' = [op |-> "bitstream_to_value", s |-> bitstream,
                       err |-> r.err, ret |-> NoFloat, out |-> r.out]
           /\ IF r.made THEN EnsureInitialized
              ELSE UNCHANGED <<classVars, builds>>
    /\ UNCHANGED <<gen, objs, threads>>

\* The strings tried: every string of 8 binary digits; three of them with
\* each one character replaced by a sign, an underscore, a blank, a letter
\* or a digit that is not binary; strings of 0, 7 and 9 binary digits.
OtherChars == {"+", "-", "_", " ", "b", "B", "2"}

BaseStrings == {Binary(1, 8), Binary(120, 8), Binary(MaxBits, 8)}

BitstreamInputs ==
    {Binary(n, 8) : n \in Patterns}
        \cup {[base EXCEPT ![k] = c] :
                <<base, k, c>> \in BaseStrings \X (1 .. 8) \X OtherChars}
        \cup {Binary(n, 7) : n \in {0, 1, 127}}
        \cup {Binary(n, 9) : n \in {0, 1, 256, 511}}
        \cup {<< >>}

NextBitstream ==
    \/ \E bitstream \in BitstreamInputs : BitstreamToValue(bitstream)
    \/ Return

SpecBitstream == Init /\ [][NextBitstream]_vars

IsBinary8(s) == Len(s) = 8 /\ \A k \in 1 .. 8 : s[k] \in {"0", "1"}

\* C15 as claimed: bitstream_to_value raises, and returns no value, for
\* every string that is not 8 characters each '0' or '1', and returns a
\* value for every string of 8 binary digits.
C15_Original ==
    call.op = "bitstream_to_value" =>
        IF IsBinary8(call.s)
        THEN call.err = "none" /\ call.out # NoValue
        ELSE call.err # "none" /\ call.out = NoValue

(***************************************************************************)
(* The caller of SpecObjects: what it calls.                               *)
(***************************************************************************)
Held == 1 .. Len(objs)

\* What from_value is given beside the values of the kept instances.
ObjectValueInputs == {NaN, Inf(1), Zero(0), Dyadic(Midpoint19(0))}

\* The operand patterns of the arithmetic.
ObjectOperands == {0, 120, 255}

\* The strings given to bitstream_to_value: a pattern's, one too short, one
\* of a negative number.
ObjectBitstreams ==
    {Binary(120, 8), Binary(1, 7), [Binary(120, 8) EXCEPT ![1] = "-"]}

NextObjects ==
    \/ \E sign \in SignInputs, exponent \in ExponentInputs,
          mantissa \in MantissaInputs : New(sign, exponent, mantissa)
    \/ \E bits \in BitsInputs : FromBits(bits)
    \/ \E i \in Held : FromBits(int2(to_bitstring(objs[i])))
    \/ \E v \in ObjectValueInputs : FromValue(v)
    \/ \E i \in Held : FromValue(value(objs[i]))
    \/ InitializeLookupTables
    \/ \E bitstream \in ObjectBitstreams : BitstreamToValue(bitstream)
    \/ \E i \in Held, j \in Held : Equals(i, objs[j])
    \/ \E i \in Held : Equals(i, Foreign(objs[i]))
    \/ \E a \in ObjectOperands, b \in ObjectOperands : MakeOperands(a, b)
    \/ Add
    \/ Subtract
    \/ Multiply
    \/ Divide
    \/ Keep
    \/ Return

SpecObjects == Init /\ [][NextObjects]_vars

(***************************************************************************)
(* The contract of the instances, on the calls of SpecObjects.             *)
(***************************************************************************)
\* The three fields are those of one and the same triple.
SameFields(x, y) ==
    /\ x.sign = y.sign
    /\ x.exponent = y.exponent
    /\ x.mantissa = y.mantissa

\* C12: two values compare equal exactly when their fields, and so their
\* packed patterns, are the same, and then their hashes are equal; nothing
\* that is no Float_4E3M compares equal; the instance from_bits makes of a
\* kept instance's bitstring and the one from_value makes of its decoded
\* value are equal to it and hash as it does.
C12_EqualityByPattern ==
    /\ call.op = "eq" =>
          /\ call.out <=> (IsFloat_4E3M(call.other)
                              /\ SameFields(call.self, call.other))
          /\ call.out => call.hash_self = call.hash_other
    /\ \A i \in Held :
          \/ /\ call.op = "from_bits"
             /\ call.a = int2(to_bitstring(objs[i]))
          \/ /\ call.op = "from_value"
             /\ call.x = value(objs[i])
          => /\ call.err = "none"
             /\ SameFields(call.ret, objs[i])
             /\ Eq(call.ret, objs[i])
             /\ Eq(objs[i], call.ret)
             /\ Hash(call.ret) = Hash(objs[i])

\* Two instances of one pattern, made by two calls, were found equal.
C12_Witness ==
    /\ call.op = "eq"
    /\ Len(objs) = 2
    /\ call.self = objs[1]
    /\ call.other = objs[2]
    /\ objs[1] = objs[2]
    /\ call.out
    /\ call.hash_self = call.hash_other

\* C13: from_bits(b).to_bits() = b for every b in 0..255, the sign being
\* bit 7, the exponent bits 6..3 and the mantissa bits 2..0 of b; and
\* from_bits(Float_4E3M(s, e, m).to_bits()) has the fields (s, e, m).
C13_BitsRoundTrip ==
    /\ (call.op = "from_bits" /\ call.err = "none") =>
          LET digits == Binary(call.a, 8)
          IN  /\ to_bits(call.ret) = call.a
              /\ call.ret.sign = int2(SubSeq(digits, 1, 1))
              /\ call.ret.exponent = int2(SubSeq(digits, 2, 5))
              /\ call.ret.mantissa = int2(SubSeq(digits, 6, 8))
              /\ to_bits(call.ret)
                    = int2(Binary(call.ret.sign, 1)
                              \o Binary(call.ret.exponent, 4)
                              \o Binary(call.ret.mantissa, 3))
    /\ (call.op = "init" /\ call.err = "none") =>
          /\ from_bits(to_bits(call.ret)).err = "none"
          /\ from_bits(to_bits(call.ret)).obj
                = [sign |-> call.args[1], exponent |-> call.args[2],
                   mantissa |-> call.args[3]]

\* A pattern with the exponent's highest bit set was unpacked.
C13_Witness ==
    /\ call.op = "from_bits"
    /\ call.a = 2^6 + 2
    /\ call.err = "none"
    /\ call.ret = [sign |-> 0, exponent |-> 8, mantissa |-> 2]

InRange(sign, exponent, mantissa) ==
    sign \in {0, 1} /\ exponent \in 0 .. 15 /\ mantissa \in 0 .. 7

\* C14: the constructor raises ValueError and yields no instance for a field
\* out of range, from_bits for bits outside 0..255, and only then; an
\* instance made has the fields given, and every instance returned or kept
\* has its fields in range.
C14_RangeErrors ==
    /\ call.op = "init" =>
          IF InRange(call.args[1], call.args[2], call.args[3])
          THEN /\ call.err = "none"
               /\ call.ret = [sign |-> call.args[1], exponent |-> call.args[2],
                              mantissa |-> call.args[3]]
          ELSE call.err = "ValueError" /\ call.ret = NoFloat
    /\ call.op = "from_bits" =>
          IF call.a \in 0 .. 255
          THEN call.err = "none" /\ call.ret # NoFloat
          ELSE call.err = "ValueError" /\ call.ret = NoFloat
    /\ (call.op # "idle" /\ call.ret # NoFloat) =>
          InRange(call.ret.sign, call.ret.exponent, call.ret.mantissa)
    /\ \A i \in Held :
          InRange(objs[i].sign, objs[i].exponent, objs[i].mantissa)

\* A mantissa one past the range was refused.
C14_Witness ==
    /\ call.op = "init"
    /\ call.args = <<1, MaxExponent, MaxMantissa + 1>>
    /\ call.err = "ValueError"
    /\ call.ret = NoFloat

(***************************************************************************)
(* The lookup tables under one caller, on the steps of SpecObjects.        *)
(***************************************************************************)
\* The call asks for the tables: every call that gets as far as the test of
\* _initialized.
Triggers(c) ==
    \/ c.op \in {"from_value", "_initialize_lookup_tables", "operands"}
    \/ c.op \in {"init", "from_bits", "bitstream_to_value"} /\ c.err = "none"

\* C16: under one caller the body of the table build runs once, in the
\* first call that asks for the tables; once built, the tables are kept as
\* they are, never built again, and _initialized stays true.
C16_BuiltOnce ==
    [][/\ builds' = builds + 1
            <=> (~initialized /\ call.op = "idle" /\ Triggers(call'))
       /\ builds' \in {builds, builds + 1}
       /\ initialized =>
             /\ initialized'
             /\ builds' = builds
             /\ all_values' = all_values
             /\ all_components' = all_components
       /\ initialized' <=> builds' = 1
       /\ initialized' =>
             all_values' = BuiltValues /\ all_components' = BuiltComponents]_vars

\* _initialize_lookup_tables was called after the calls that made the kept
\* instances, and the tables had been built once.
C16_Witness ==
    /\ call.op = "_initialize_lookup_tables"
    /\ Len(objs) = MaxObjs
    /\ initialized
    /\ builds = 1

\* C19 as claimed: a call that raises leaves _initialized, _all_values and
\* _all_components, and the fields of every instance there is, as they were
\* before it.
C19_Original ==
    [][(call.op \in {"idle", "operands"} /\ call'.op # "idle"
            /\ call'.err # "none")
          => /\ initialized' = initialized
             /\ all_values' = all_values
             /\ all_components' = all_components
             /\ objs' = objs]_vars

(***************************************************************************)
(* The reals the arithmetic computes, on the calls of SpecArith.           *)
(***************************************************************************)
\* The number of binary digits of n > 0.
RECURSIVE BitLength(_)
BitLength(n) == IF n = 0 THEN 0 ELSE 1 + BitLength(n \div 2)

\* C20: the real that add, subtract, multiply and divide compute from two
\* operands is finite, within the binary64 range (above the least subnormal
\* 2^-1074, below 2^1024), and never NaN, and the operation does not fail in
\* the quantizer.
C20_IntermediateFinite ==
    ArithmeticDone =>
        /\ call.x.cls = "fin"
        /\ call.x # NaN
        /\ call.x.num # 0 =>
              /\ call.x.exp - BitLength(call.x.den) >= -1074
              /\ call.x.exp + BitLength(call.x.num) < 1024
        /\ call.err # "ValueError"
        /\ call.ret # NoFloat

\* The largest magnitude was divided by the smallest: the largest real the
\* arithmetic meets.
C20_Witness ==
    /\ call.op = "divide"
    /\ call.a = MaxMantissa
    /\ call.b = to_bits(ZeroCase.obj)
    /\ call.x = Fin(0, 8 + MaxMantissa, MaxExponent - 3, 1)
    /\ call.err = "none"

(***************************************************************************)
(* Concurrent callers of from_value.  The class takes no lock; a thread    *)
(* may be switched out between any two statements, and a read or an        *)
(* assignment of a class variable is one step.  The arrays of the build    *)
(* are computed in the builder's locals (lines 66-77) and then assigned.   *)
(***************************************************************************)
NumThreads == 2

ThreadInputs == {Zero(0), Dyadic(Table19(0)), Dyadic(Midpoint19(0))}

\* A thread about to call from_value(v).
NewThread(v) ==
    [pc |-> "l153", v |-> v, step |-> 0, best_index |-> -1,
     seen_values |-> None, seen_components |-> None,
     err |-> "none", ret |-> NoFloat]

\* The threads start, each with its argument.
Spawn ==
    /\ threads = NoThreads
    /\ call.op = "idle"
    /\ gen.pc = "none"
    /\ \E vs \in [1 .. NumThreads -> ThreadInputs] :
          threads' = [t \in 1 .. NumThreads |-> NewThread(vs[t])]
    /\ UNCHANGED <<classVars, builds, call, gen, objs>>

\* from_value, line 153: if not cls._initialized
CheckInitialized(t) ==
    /\ threads[t].pc = "l153"
    /\ threads' = [threads EXCEPT
                     ![t].pc = IF initialized THEN "l157" ELSE "l62"]
    /\ UNCHANGED <<classVars, builds, call, gen, objs>>

\* _initialize_lookup_tables, lines 62-77: return if initialized, else
\* compute the arrays.
EnterInitialize(t) ==
    /\ threads[t].pc = "l62"
    /\ IF initialized
       THEN /\ threads' = [threads EXCEPT ![t].pc = "l157"]
            /\ UNCHANGED builds
       ELSE /\ threads' = [threads EXCEPT ![t].pc = "build", ![t].step = 1]
            /\ builds' = builds + 1
    /\ UNCHANGED <<classVars, call, gen, objs>>

\* The flag set before the arrays are assigned.
BuildStepsFlagFirst == <<"_initialized", "_all_values", "_all_components">>

\* Lines 79, 80, 81: what the build assigns, in its order.
BuildSteps == <<"_all_values", "_all_components", "_initialized">>

\* One assignment of the build.
BuildStep(t) ==
    /\ threads[t].pc = "build"
    /\ LET target == BuildSteps[threads[t].step]
       IN  /\ all_values' =
                 IF target = "_all_values" THEN BuiltValues ELSE all_values
           /\ all_components' =
                 IF target = "_all_components" THEN BuiltComponents
                 ELSE all_components
           /\ initialized' =
                 IF target = "_initialized" THEN TRUE ELSE initialized
    /\ threads' = [threads EXCEPT
                     ![t].pc = IF threads[t].step = Len(BuildSteps)
                               THEN "l157" ELSE "build",
                     ![t].step = @ + 1]
    /\ UNCHANGED <<builds, call, gen, objs>>

\* Lines 157-170: NaN, the infinities and zero end the call here.
SpecialCases(t) ==
    /\ threads[t].pc = "l157"
    /\ LET v == threads[t].v
           r == from_value(None, None, v)
       IN  threads' =
               IF IsNan(v) \/ IsInf(v) \/ IsZero(v)
               THEN [threads EXCEPT ![t].pc = "done", ![t].err = r.err,
                                    ![t].ret = r.obj]
               ELSE [threads EXCEPT ![t].pc = "l173"]
    /\ UNCHANGED <<classVars, builds, call, gen, objs>>

\* Lines 173-174: the differences to cls._all_values and their argmin; a
\* table that is still None cannot be subtracted from.
ReadValues(t) ==
    /\ threads[t].pc = "l173"
    /\ threads' =
          IF all_values = None
          THEN [threads EXCEPT ![t].pc = "done", ![t].err = "TypeError"]
          ELSE [threads EXCEPT
                  ![t].pc = "l177",
                  ![t].seen_values = all_values,
                  ![t].best_index =
                      ArgMin(Differences(all_values, threads[t].v))]
    /\ UNCHANGED <<classVars, builds, call, gen, objs>>

\* Lines 177-179: the components at best_index, and the instance of them.
ReadComponents(t) ==
    /\ threads[t].pc = "l177"
    /\ threads' =
          IF all_components = None
          THEN [threads EXCEPT ![t].pc = "done", ![t].err = "TypeError"]
          ELSE LET c == all_components[threads[t].best_index]
                   r == Float_4E3M(c[1], c[2], c[3])
               IN  [threads EXCEPT ![t].pc = "done",
                                   ![t].seen_components = all_components,
                                   ![t].err = r.err, ![t].ret = r.obj]
    /\ UNCHANGED <<classVars, builds, call, gen, objs>>

NextThreads ==
    \/ Spawn
    \/ \E t \in DOMAIN threads : CheckInitialized(t)
    \/ \E t \in DOMAIN threads : EnterInitialize(t)
    \/ \E t \in DOMAIN threads : BuildStep(t)
    \/ \E t \in DOMAIN threads : SpecialCases(t)
    \/ \E t \in DOMAIN threads : ReadValues(t)
    \/ \E t \in DOMAIN threads : ReadComponents(t)

SpecThreads == Init /\ [][NextThreads]_vars

(***************************************************************************)
(* The tables under concurrent callers, on the runs of SpecThreads.        *)
(***************************************************************************)
\* C17 as claimed: with threads making their first use at once, the body of
\* the table build runs at most once over all threads.
C17_Original == builds <= 1

\* A table of an entry for each pattern and none else.
FullTable(table) == table # None /\ DOMAIN table = 0 .. 255

\* C18: a thread never meets a partly built table: when _initialized is
\* true both arrays are assigned, with their 256 entries; a thread in the
\* search reads assigned arrays, the same for every thread whoever built
\* them; and its call returns what the call of a single caller returns.
C18_NeverPartialTable ==
    /\ initialized =>
          /\ FullTable(all_values)
          /\ FullTable(all_components)
    /\ \A t \in DOMAIN threads :
          /\ threads[t].pc \in {"l157", "l173", "l177"} =>
                FullTable(all_values) /\ FullTable(all_components)
          /\ threads[t].err # "TypeError"
          /\ threads[t].pc = "l177" => FullTable(threads[t].seen_values)
          /\ (threads[t].pc = "done" /\ threads[t].best_index >= 0) =>
                /\ FullTable(threads[t].seen_values)
                /\ FullTable(threads[t].seen_components)
                /\ threads[t].ret
                      = from_value(BuiltValues, BuiltComponents,
                                   threads[t].v).obj
          /\ \A u \in DOMAIN threads :
                /\ (threads[t].seen_values # None
                        /\ threads[u].seen_values # None)
                      => threads[t].seen_values = threads[u].seen_values
                /\ (threads[t].seen_components # None
                        /\ threads[u].seen_components # None)
                      => threads[t].seen_components
                            = threads[u].seen_components

\* A thread that found _initialized true at its first test, and so built
\* nothing, finished a search in the tables another thread built.
C18_Witness ==
    /\ \E t \in DOMAIN threads :
          /\ threads[t].pc = "done"
          /\ threads[t].best_index >= 0
          /\ threads[t].err = "none"
          /\ threads[t].step = 0
    /\ \E u \in DOMAIN threads : threads[u].step = Len(BuildSteps) + 1

(***************************************************************************)
(* The decoded values of all patterns, on the list SpecEnum enumerates and *)
(* the tables its first construction builds.  Magnitudes are counted in    *)
(* units of 2^InputExp: 2^-15 is 2^4 units, 1.75 is 14 * 2^16 and 1.875 is *)
(* 15 * 2^16 units.                                                        *)
(***************************************************************************)
Enumerated == IF gen.pc \in {"enumerate", "returned"} THEN gen.all_floats
              ELSE << >>

\* A finite non-zero real of magnitude lo..hi units, taking lo only with
\* exponent 15 and mantissa 0, and hi only with exponent 0 and mantissa 7.
MagnitudeWithin(v, f, lo, hi) ==
    /\ v.cls = "fin"
    /\ v.num # 0
    /\ lo <= Abs(Units19(v))
    /\ Abs(Units19(v)) <= hi
    /\ Abs(Units19(v)) = hi <=> (f.exponent = 0 /\ f.mantissa = 7)
    /\ Abs(Units19(v)) = lo <=> (f.exponent = 15 /\ f.mantissa = 0)

\* C21 as claimed: every pattern decodes to a magnitude in [2^-15, 1.75],
\* 1.75 being that of exponent 0, mantissa 7.
C21_Original ==
    \A k \in 1 .. Len(Enumerated) :
        MagnitudeWithin(value(Enumerated[k]), Enumerated[k], 2^4, 14 * 2^16)

\* C21: every pattern decodes to a real of magnitude in [2^-15, 1.875]; the
\* largest, 1.875 = 15/8, is that of exponent 0 and mantissa 7 and of no
\* other, the least, 2^-15, that of exponent 15 and mantissa 0 and of no
\* other; no pattern decodes to 0.  The table holds the same values.
C21_MagnitudeRange ==
    /\ \A k \in 1 .. Len(Enumerated) :
          /\ MagnitudeWithin(value(Enumerated[k]), Enumerated[k],
                             2^4, 15 * 2^16)
          /\ ~IsZero(value(Enumerated[k]))
    /\ initialized =>
          \A b \in 0 .. 255 :
              MagnitudeWithin(all_values[b],
                              [sign |-> all_components[b][1],
                               exponent |-> all_components[b][2],
                               mantissa |-> all_components[b][3]],
                              2^4, 15 * 2^16)

\* All patterns were decoded, the one of the largest magnitude (pattern 7)
\* and the one of the least (pattern 120) among them.
C21_Witness ==
    /\ gen.pc = "returned"
    /\ Abs(Units19(value(gen.all_floats[8]))) = 15 * 2^16
    /\ Abs(Units19(value(gen.all_floats[121]))) = 2^4

\* C23: the patterns decode to pairwise different reals, by the property
\* value and in the table: as many different values as patterns, so that
\* values of different patterns differ and a real is at distance 0 from at
\* most one table entry.
C23_DecodingInjective ==
    /\ Cardinality({Units19(value(Enumerated[k])) : k \in 1 .. Len(Enumerated)})
          = Len(Enumerated)
    /\ Cardinality({to_bits(Enumerated[k]) : k \in 1 .. Len(Enumerated)})
          = Len(Enumerated)
    /\ initialized =>
          Cardinality({Units19(all_values[b]) : b \in 0 .. 255}) = 256

\* All 256 patterns were decoded.
C23_Witness ==
    /\ gen.pc = "returned"
    /\ Len(gen.all_floats) = NumPatterns
    /\ initialized
    /\ value(gen.all_floats[1]) # value(gen.all_floats[129])

(***************************************************************************)
(* Determinism, on the calls of SpecObjects: whatever the caller did       *)
(* before, a call gives what its arguments alone determine.                *)
(***************************************************************************)
\* from_value(x) with tables built for this one call.
Fresh(x) == from_value(BuiltValues, BuiltComponents, x)

\* C22: the result of an operation on two operand patterns, and of
\* from_value on a real, is the same whatever calls went before it and
\* whether the tables were built before the call or by it: it is the exact
\* result of the operands quantized with freshly built tables.
C22_Deterministic ==
    /\ ArithmeticDone =>
          /\ call.x = ExactResult
          /\ call.err = Fresh(ExactResult).err
          /\ call.ret = Fresh(ExactResult).obj
    /\ call.op = "from_value" =>
          /\ call.err = Fresh(call.x).err
          /\ call.ret = Fresh(call.x).obj

\* A product was computed by a caller that had made other calls before and
\* kept their instances.
C22_Witness ==
    /\ call.op = "multiply"
    /\ call.a # call.b
    /\ call.err = "none"
    /\ Len(objs) = MaxObjs
    /\ builds = 1

(***************************************************************************)
(* Two calls of from_value in a row, the caller keeping the first call's   *)
(* argument and result beside the second's.  The second argument is the    *)
(* next larger of the inputs or the negative of the first.                 *)
(***************************************************************************)
\* Beyond every finite input, in units of 2^InputExp: where the infinities
\* are put in the order of the inputs.
Beyond == 2^(MaxExponent + 7)

\* The place of a real that is not NaN in the order of the reals.
Ord(v) ==
    IF v.cls = "inf" THEN (IF v.sign = 0 THEN Beyond ELSE -Beyond)
    ELSE Units19(v)

OrderedInputs == InputInts \cup {0, Beyond, -Beyond}

RealAt(n) ==
    IF n = Beyond THEN Inf(0)
    ELSE IF n = -Beyond THEN Inf(1)
    ELSE IF n = 0 THEN Zero(0)
    ELSE Dyadic(n)

\* The inputs that follow n in the order: the next larger one, if any.
Following(n) ==
    LET above == {m \in OrderedInputs : m > n}
    IN  {m \in above : \A k \in above : m <= k}

\* What the second call is given after a first call on v.
SecondInputs(v) ==
    {RealAt(m) : m \in Following(Ord(v))}
        \cup (IF v.cls = "fin" THEN {RNeg(v)} ELSE {})

\* Float_4E3M.from_value(w), after a call that returned.
FromValueAfter(w) ==
    /\ call.op = "from_value"
    /\ call.err = "none"
    /\ "prev" \notin DOMAIN call
    /\ LET r == from_value(all_values, all_components, w)
       IN  call' = [op |-> "from_value", x |-> w, err |-> r.err,
                    ret |-> r.obj, searched |-> r.searched,
                    prev |-> [x |-> call.x, ret |-> call.ret]]
    /\ UNCHANGED <<classVars, builds, gen, objs, threads>>

NextPairs ==
    \/ \E v \in QuantInputs : FromValue(v)
    \/ \E w \in SecondInputs(call.x) : FromValueAfter(w)
    \/ Return

SpecPairs == Init /\ [][NextPairs]_vars

TwoCalls == call.op = "from_value" /\ "prev" \in DOMAIN call

C26_ZeroCaseAgreesWithSearch ==
    (call.op = "from_value" /\ IsZero(call.x)) =>
        /\ ~call.searched
        /\ call.ret = NearestCase(all_values, all_components, call.x).obj
        /\ to_bits(call.ret) = ArgMin(Differences(all_values, call.x))
        /\ call.ret = [sign |-> 0, exponent |-> 15, mantissa |-> 0]
        /\ \A t \in Patterns :
              Abs(Units19(all_values[t]))
                  >= Abs(Units19(all_values[to_bits(call.ret)]))

\* Zero was quantized by the zero case, and the search has a tie there.
C26_Witness ==
    /\ call.op = "from_value"
    /\ call.x = Zero(0)
    /\ ~call.searched
    /\ call.ret = [sign |-> 0, exponent |-> 15, mantissa |-> 0]
    /\ AbsDiff(all_values[120], call.x) = AbsDiff(all_values[248], call.x)

(***************************************************************************)
(* Saturation, on the calls of SpecArith.                                  *)
(***************************************************************************)
\* |x| >= n * 2^e for a finite x, compared in limbs.
AtLeastMagnitude(x, n, e) ==
    LET u == Min2(x.exp, e)
    IN  ~LimbLess(ShiftLeft(x.num, x.exp - u), ShiftLeft(n * x.den, e - u))

\* The largest magnitude of the sign of x.
Saturated(x) == [sign |-> x.sign, exponent |-> 0, mantissa |-> 7]

Negated(bits) == (bits + 2^7) % 2^8

\* The call subtracted an operand from itself or added an operand to its
\* negation.
Cancels ==
    \/ call.op = "subtract" /\ call.a = call.b
    \/ call.op = "add" /\ call.b = Negated(call.a)

\* C28: subtract(x, x) and add(x, -x) have the real result 0 and return the
\* zero encoding 01111000, which decodes to 2^-15 and not to 0; no result
\* of an operation decodes to 0.
C28_CancellationGivesZeroEncoding ==
    /\ Cancels =>
          /\ IsZero(call.x)
          /\ call.err = "none"
          /\ call.ret = [sign |-> 0, exponent |-> 15, mantissa |-> 0]
          /\ to_bitstring(call.ret) = <<"0", "1", "1", "1", "1", "0", "0", "0">>
          /\ value(call.ret) = Fin(0, 1, -15, 1)
    /\ (ArithmeticDone /\ call.err = "none") => ~IsZero(value(call.ret))

\* A negative operand was added to its positive counterpart, and an operand
\* of the largest magnitude cancels as well.
C28_Witness ==
    /\ call.op = "add"
    /\ call.a = 135
    /\ call.b = 7
    /\ IsZero(call.x)
    /\ to_bits(call.ret) = 120

(***************************************************************************)
(* Commutativity, on the calls of SpecArith.                               *)
(***************************************************************************)
\* The real result of the call's operation on its operands exchanged.
ExchangedResult ==
    LET a == from_bits(call.a).obj
        b == from_bits(call.b).obj
    IN  IF call.op = "add" THEN Float_add(b, a) ELSE MultiplyValue(b, a)

\* C29: add(a, b) and add(b, a), and multiply(a, b) and multiply(b, a),
\* return the same bit pattern: the real results of the exchanged operands
\* are equal and quantize to the same object.
C29_Commutative ==
    call.op \in {"add", "multiply"} =>
        /\ call.x = ExchangedResult
        /\ LET r == from_value(all_values, all_components, ExchangedResult)
           IN  /\ r.err = call.err
               /\ to_bits(r.obj) = to_bits(call.ret)
               /\ to_bitstring(r.obj) = to_bitstring(call.ret)

\* Two different operands of opposite signs were multiplied.
C29_Witness ==
    /\ call.op = "multiply"
    /\ call.a = 7
    /\ call.b = 248
    /\ to_bits(call.ret) = 255

(***************************************************************************)
(* save_operation_results_to_files, one inner iteration a step.  The lists *)
(* are slices of the enumeration of all patterns; the text lines and CSV   *)
(* rows are kept by their number, decimal_places being the default.        *)
(***************************************************************************)
\* Where the slices start: the largest values, the zero encoding's
\* neighbourhood (119, 120, 121), the smallest negatives.
SaveStarts == {0, 119, 248}

\* The operation names passed: the four supported ones and another.
OperationNames == {"add", "subtract", "multiply", "divide", "power"}

\* The keys of operations_map.
operations_map == {"add", "subtract", "multiply", "divide"}

\* A skip of the pairs whose divisor has the zero encoding's pattern.
SkipsPairZeroEncoding(operation, x2) ==
    operation = "divide" /\ DivisorIsZeroEncoding(x2)

\* if operation == 'divide' and x2.value == 0: continue
SkipsPair(operation, x2) == operation = "divide" /\ IsZero(value(x2))

\* op_func(x1, x2): the static method of the operation, its exception or
\* its result.
op_func(operation, x1, x2) ==
    CASE operation = "add" ->
            from_value(InitializedValues, InitializedComponents,
                       Float_add(x1, x2))
      [] operation = "subtract" ->
            from_value(InitializedValues, InitializedComponents,
                       SubtractValue(x1, x2))
      [] operation = "multiply" ->
            from_value(InitializedValues, InitializedComponents,
                       MultiplyValue(x1, x2))
      [] operation = "divide" ->
            IF DivisorRejected(x2)
            THEN [err |-> "ZeroDivisionError", obj |-> NoFloat,
                  searched |-> FALSE]
            ELSE from_value(InitializedValues, InitializedComponents,
                            DivideValue(x1, x2))

\* except (ZeroDivisionError, OverflowError): continue
Handled(err) == err \in {"ZeroDivisionError", "OverflowError"}

\* all_floats = generate_all_float_4e3m();
\* save_operation_results_to_files(all_floats[first1 : first1 + n1],
\*                                 all_floats[first2 : first2 + n2], operation)
\* up to its loops: an operation that is not a key of operations_map raises
\* ValueError; else the lists and headers are set up.
SaveStart(operation, first1, n1, first2, n2) ==
    /\ gen.pc = "none"
    /\ call.op = "idle"
    /\ first1 + n1 <= NumPatterns
    /\ first2 + n2 <= NumPatterns
    /\ EnsureInitialized
    /\ gen' = [pc        |-> IF operation \in operations_map
                             THEN "save" ELSE "raised",
               err       |-> IF operation \in operations_map
                             THEN "none" ELSE "ValueError",
               operation |-> operation,
               first1    |-> first1,
               first2    |-> first2,
               list1 |-> SubSeq(generate_all_float_4e3m, first1 + 1, first1 + n1),
               list2 |-> SubSeq(generate_all_float_4e3m, first2 + 1, first2 + n2),
               i         |-> IF n2 = 0 THEN n1 ELSE 0,
               j         |-> 0,
               processed |-> 0,
               operation_results |-> << >>,
               text_lines |-> IF operation \in operations_map THEN 2 ELSE 0,
               csv_data   |-> IF operation \in operations_map THEN 1 ELSE 0,
               text_written |-> FALSE,
               csv_written  |-> FALSE]
    /\ UNCHANGED <<call, objs, threads>>

\* One iteration of the inner loop: the pair is skipped, or the operation
\* raises what the handler passes over, or raises something else, or its
\* result is appended to the three lists.
SaveStep ==
    /\ gen.pc = "save"
    /\ gen.i < Len(gen.list1)
    /\ LET x1     == gen.list1[gen.i + 1]
           x2     == gen.list2[gen.j + 1]
           last   == gen.j + 1 = Len(gen.list2)
           moved  == [gen EXCEPT !.i = IF last THEN @ + 1 ELSE @,
                                 !.j = IF last THEN 0 ELSE @ + 1,
                                 !.processed = @ + 1]
       IN  IF SkipsPair(gen.operation, x2)
           THEN /\ gen' = moved
                /\ UNCHANGED <<classVars, builds>>
           ELSE LET result == op_func(gen.operation, x1, x2)
                IN  /\ IF gen.operation = "divide" /\ DivisorRejected(x2)
                       THEN UNCHANGED <<classVars, builds>>
                       ELSE EnsureInitialized
                    /\ gen' =
                         IF Handled(result.err) THEN moved
                         ELSE IF result.err # "none"
                         THEN [gen EXCEPT !.pc = "raised",
                                          !.err = result.err,
                                          !.processed = @ + 1]
                         ELSE [moved EXCEPT
                                 !.operation_results =
                                     Append(@, TableEntry(x1, x2, result.obj)),
                                 !.text_lines = @ + 1,
                                 !.csv_data = @ + 1]
    /\ UNCHANGED <<call, objs, threads>>

\* The two files are written, each write's failure printed and passed over;
\* return operation_results
SaveReturn(text_ok, csv_ok) ==
    /\ gen.pc = "save"
    /\ gen.i = Len(gen.list1)
    /\ gen' = [gen EXCEPT !.pc = "saved",
                          !.text_written = text_ok,
                          !.csv_written = csv_ok]
    /\ UNCHANGED <<classVars, builds, call, objs, threads>>

NextSave ==
    \/ \E operation \in OperationNames,
          first1 \in SaveStarts, first2 \in SaveStarts,
          n1 \in 0 .. MaxList, n2 \in 0 .. MaxList :
            SaveStart(operation, first1, n1, first2, n2)
    \/ SaveStep
    \/ \E text_ok \in BOOLEAN, csv_ok \in BOOLEAN : SaveReturn(text_ok, csv_ok)

SpecSave == Init /\ [][NextSave]_vars

(***************************************************************************)
(* The saved table's contract, on the runs of SpecSave.                    *)
(***************************************************************************)
\* The run is one of save_operation_results_to_files.
Saving == gen.pc \in {"save", "saved", "raised"}

\* C30: for each of the four operations the function returns one tuple per
\* pair, row by row (list1 outer, list2 inner), whatever the files' writes
\* did: no pair is skipped or passed over by the handler, a divisor of the
\* zero encoding included; an operation name that is not supported raises
\* ValueError before any pair is processed.
C30_OnePerPair ==
    Saving =>
        LET n1 == Len(gen.list1)
            n2 == Len(gen.list2)
        IN  /\ gen.pc = "raised" =>
                  /\ gen.operation \notin operations_map
                  /\ gen.err = "ValueError"
                  /\ gen.processed = 0
                  /\ gen.operation_results = << >>
            /\ gen.operation \notin operations_map => gen.pc = "raised"
            /\ gen.pc = "save" =>
                  /\ Len(gen.operation_results) = gen.processed
                  /\ gen.i < n1 => gen.processed = n2 * gen.i + gen.j
            /\ gen.pc = "saved" =>
                  /\ gen.processed = n1 * n2
                  /\ Len(gen.operation_results) = n1 * n2
                  /\ gen.text_lines = 2 + n1 * n2
                  /\ gen.csv_data = 1 + n1 * n2
                  /\ \A i \in 0 .. n1 - 1 : \A j \in 0 .. n2 - 1 :
                        LET entry == gen.operation_results[n2 * i + j + 1]
                        IN  /\ entry[1] = Binary(gen.first1 + i, 8)
                            /\ entry[2] = Binary(gen.first2 + j, 8)
                            /\ entry[1] = to_bitstring(gen.list1[i + 1])
                            /\ entry[2] = to_bitstring(gen.list2[j + 1])
                            /\ Len(entry[3]) = 8

\* A division table whose divisors include the zero encoding was returned
\* with every pair in it.
C30_Witness ==
    /\ gen.pc = "saved"
    /\ gen.operation = "divide"
    /\ gen.first2 = 119
    /\ Len(gen.list1) = MaxList
    /\ Len(gen.list2) = MaxList
    /\ to_bits(gen.list2[2]) = to_bits(ZeroCase.obj)
    /\ Len(gen.operation_results) = MaxList * MaxList

=============================================================================
